---- MODULE Spec2Model ----
(***************************************************************************)
(* State-machine model of the futures trading bot.                         *)
(*                                                                         *)
(*  - SpecFeed   : the reconnecting price feed of                          *)
(*                 Real_Trading_Websocket.py (start_symbol_ticker_socket / *)
(*                 reconnect_websocket and the global reconnect counter).  *)
(*  - Spec       : the tick engine of Real_trading.py                      *)
(*                 (handle_socket_message, PriceAnalyzer, RiskManager,     *)
(*                 open_position) over several symbols.                    *)
(*  - SpecTrail  : the same tick engine, one symbol, a wider price range,  *)
(*                 for the trailing stop and the partial-close ladder.     *)
(*  - SpecOrder  : the same tick engine, one symbol, with the answers of   *)
(*                 the exchange that open_position meets after its gates.  *)
(*  - SpecSizing : the sizing functions of Real_trading.py and             *)
(*                 Real_trading_spot.py applied to ranges of arguments.    *)
(*  - SpecLiq    : the tick engine, one symbol, a position held through  *)
(*                 a volatile or a calm market.                            *)
(*  - SpecCap    : the tick engine with a price history near its cap.      *)
(*  - SpecAlert  : the tick engine with price alerts registered by hand.   *)
(*  - SpecRequest: the retrying requests of futures_sign.py and the       *)
(*                 retried get_tick_size of Real_trading.py.               *)
(*  - SpecStatus : the STATUS command of main() beside the tick handlers.  *)
(*  - SpecDaily  : the tick engine, one symbol, a long session of ticks.   *)
(*  - SpecTrader : BinanceTrader.check_price_target of Real_trading.py.   *)
(*  - SpecSocket : BinanceWebsocketClient of Real_trading.py.              *)
(*                                                                         *)
(* Numbers.  Python floats are modelled exactly where the code only adds,  *)
(* multiplies, divides and compares:                                       *)
(*   tick prices   integers, in units of the symbol's tick size            *)
(*   computed prices, percentages and quantities                           *)
(*                 exact rationals [n, d] in lowest terms, d > 0           *)
(*   np.log        a table in thousandths (Ln); np.std * sqrt(20) * 100    *)
(*                 in whole percent, rounded down                          *)
(***************************************************************************)
EXTENDS Integers, Sequences, FiniteSets, TLC

VARIABLES
    \* ---- Real_Trading_Websocket.py: the feed ----
    twm,                 \* symbols streaming on the current ThreadedWebsocketManager
    reconnect_attempts,  \* the global counter (line 30)
    feed_pc,             \* "idle" | "start" | "reconnect": the function about to run
    feed_symbol,         \* the symbol of the running subscribe call
    feed_depth,          \* Python call-stack depth of the running subscribe call
    feed_result,         \* how the last subscribe call ended
    failed_in_row,       \* history: consecutive failed connection attempts of this call
    reconnects_in_row,   \* history: reconnect attempts (manager restarts) of this call
    exceeded_notices     \* history: "maximum attempts exceeded" notifications sent

feed_vars == <<twm, reconnect_attempts, feed_pc, feed_symbol, feed_depth,
               feed_result, failed_in_row, reconnects_in_row, exceeded_notices>>

VARIABLES
    \* ---- Real_trading.py: the tick engine ----
    subscribed,       \* symbols with an aggTrade socket (twm.start_aggtrade_socket)
    TARGET_PRICES,    \* dict symbol -> target price or None (line 73)
    previous_prices,  \* dict symbol -> last price seen (line 74)
    price_history,    \* PriceAnalyzer.price_history: dict symbol -> list of samples
    volatility,       \* PriceAnalyzer.volatility: dict symbol -> percent
    price_alerts,     \* RiskManager.price_alerts: dict symbol -> list of alerts
    open_positions,   \* RiskManager.open_positions: dict symbol -> position
    trailing_stops,   \* RiskManager.trailing_stops: dict symbol -> trailing stop
    orders,           \* the exchange's live protective orders, per symbol
    calls,            \* what the last handler did, in order: exchange calls, gates
    last_tick,        \* the last tick handled: [symbol, price]
    level_fired,      \* history: symbol -> ladder level -> times it triggered
    nticks,           \* history: ticks handled
    entry_orders      \* history: MARKET entry orders the exchange accepted

engine_vars == <<subscribed, TARGET_PRICES, previous_prices, price_history,
                 volatility, price_alerts, open_positions, trailing_stops,
                 orders, calls, last_tick, level_fired, nticks, entry_orders>>

VARIABLES
    \* ---- the sizing functions, called on their own ----
    sizing            \* the last call: the function, its arguments, its result

calc_vars == <<sizing>>

VARIABLES
    \* ---- futures_sign.py: one send_signed_request / send_public_request call ----
    req_pc,           \* "idle" | "attempt" | "done"
    req_fn,           \* the function called
    req_initial,      \* the retries argument of the caller
    req_retries,      \* the retries argument of the innermost frame
    req_attempts,     \* history: HTTP attempts made by this call
    req_result        \* what the call gave its caller

req_vars == <<req_pc, req_fn, req_initial, req_retries, req_attempts, req_result>>

VARIABLES
    \* ---- Real_trading.py: the status command, on the main thread ----
    status_pc,        \* "idle" | "iterating": inside the loop of lines 597-617
    status_keys,      \* the keys of open_positions when the loop started
    status_todo,      \* the keys the loop has not visited yet
    status_seen,      \* history: open_positions and trailing_stops at the loop's start
    status_result     \* how the last status command ended

status_vars == <<status_pc, status_keys, status_todo, status_seen, status_result>>

VARIABLES
    \* ---- Real_trading.py: BinanceTrader.check_price_target ----
    price_alert_sent,   \* BinanceTrader.price_alert_sent (line 761)
    target_alert,       \* the last call of check_price_target: symbol, price, fired
    fired_since_reset   \* history: symbol -> its alert fired and its price has not
                        \* been below 0.999 x target since

trader_vars == <<price_alert_sent, target_alert, fired_since_reset>>

VARIABLES
    \* ---- Real_trading.py: BinanceWebsocketClient ----
    ws,                 \* self.ws: "none" | "open" | "closed"
    keepalive_tasks,    \* the _keepalive tasks alive on the event loop
    ws_pc,              \* "idle" | "reconnect": a _keepalive task is in reconnect()
    ws_pongs,           \* history: pings answered in time
    ws_connects         \* history: connections made

ws_vars == <<ws, keepalive_tasks, ws_pc, ws_pongs, ws_connects>>

vars == <<feed_vars, engine_vars, calc_vars, req_vars, status_vars, trader_vars, ws_vars>>

-----------------------------------------------------------------------------
(* Bounds and program constants                                            *)

Symbols == {"BTCUSDT", "ETHUSDT", "BNBUSDT", "ADAUSDT"}

MAX_RECONNECT_ATTEMPTS == 5

\* Python's recursion limit (1000 frames by default), scaled down: the
\* mutually recursive start/reconnect calls end with a RecursionError there.
RecursionLimit == 16

NoSymbol == "none"

\* No sizing function was called on its own.
NoCall == [fn |-> "none"]

-----------------------------------------------------------------------------
(* Real_Trading_Websocket.py: the reconnecting feed                        *)

FeedIdle ==
    /\ twm = {}
    /\ reconnect_attempts = 0
    /\ feed_pc = "idle"
    /\ feed_symbol = NoSymbol
    /\ feed_depth = 0
    /\ feed_result = "none"
    /\ failed_in_row = 0
    /\ reconnects_in_row = 0
    /\ exceeded_notices = 0

\* main(): for symbol in symbols: start_symbol_ticker_socket(symbol)
feed_main(symbol) ==
    /\ feed_pc = "idle"
    /\ symbol \notin twm
    /\ feed_pc' = "start"
    /\ feed_symbol' = symbol
    /\ feed_depth' = 1
    /\ feed_result' = "running"
    /\ failed_in_row' = 0
    /\ reconnects_in_row' = 0
    /\ UNCHANGED <<twm, reconnect_attempts, exceeded_notices, engine_vars, calc_vars, req_vars, status_vars,
                   trader_vars, ws_vars>>

\* The value start_symbol_ticker_socket gives the counter before it tries to
\* connect (line 126).
CounterAtStart(attempts) == 0

\* start_symbol_ticker_socket(symbol); connected: whether start_aggtrade_socket
\* returned (TRUE) or raised (FALSE).
start_symbol_ticker_socket(connected) ==
    /\ feed_pc = "start"
    /\ reconnect_attempts' = CounterAtStart(reconnect_attempts)
    /\ IF connected
       THEN /\ twm' = twm \cup {feed_symbol}
            /\ feed_pc' = "idle"
            /\ feed_depth' = 0
            /\ feed_result' = "subscribed"
            /\ UNCHANGED <<failed_in_row>>
       ELSE /\ failed_in_row' = failed_in_row + 1
            /\ UNCHANGED twm
            /\ IF feed_depth + 1 > RecursionLimit
               THEN \* the call of reconnect_websocket raises RecursionError,
                    \* which the except clauses of the frames below absorb
                    /\ feed_pc' = "idle"
                    /\ feed_depth' = 0
                    /\ feed_result' = "recursion_error"
               ELSE /\ feed_pc' = "reconnect"
                    /\ feed_depth' = feed_depth + 1
                    /\ UNCHANGED feed_result
    /\ UNCHANGED <<feed_symbol, reconnects_in_row, exceeded_notices, engine_vars, calc_vars, req_vars, status_vars,
                   trader_vars, ws_vars>>

\* reconnect_websocket(symbol); restarted: whether twm.stop() and
\* initialize_websocket_manager() returned (TRUE) or one of them raised (FALSE).
reconnect_websocket(restarted) ==
    /\ feed_pc = "reconnect"
    /\ reconnect_attempts' = reconnect_attempts + 1
    /\ IF reconnect_attempts' > MAX_RECONNECT_ATTEMPTS
       THEN /\ exceeded_notices' = exceeded_notices + 1
            /\ feed_pc' = "idle"
            /\ feed_depth' = 0
            /\ feed_result' = "failed"
            /\ UNCHANGED <<twm, reconnects_in_row>>
       ELSE /\ UNCHANGED exceeded_notices
            /\ IF restarted /\ feed_depth + 1 <= RecursionLimit
               THEN \* a new manager: the sockets of the old one are gone
                    /\ twm' = {}
                    /\ reconnects_in_row' = reconnects_in_row + 1
                    /\ feed_pc' = "start"
                    /\ feed_depth' = feed_depth + 1
                    /\ UNCHANGED feed_result
               ELSE /\ twm' = IF restarted THEN {} ELSE twm
                    /\ feed_pc' = "idle"
                    /\ feed_depth' = 0
                    /\ feed_result' = IF restarted THEN "recursion_error" ELSE "error"
                    /\ UNCHANGED reconnects_in_row
    /\ UNCHANGED <<feed_symbol, failed_in_row, engine_vars, calc_vars, req_vars, status_vars,
                   trader_vars, ws_vars>>

-----------------------------------------------------------------------------
(* Arithmetic                                                              *)

Abs(x) == IF x < 0 THEN -x ELSE x

RECURSIVE Gcd(_, _)
Gcd(a, b) == IF b = 0 THEN a ELSE Gcd(b, a % b)

\* The rational n/d in lowest terms with a positive denominator.
Rat(n, d) ==
    LET g == Gcd(Abs(n), Abs(d))
        s == IF d < 0 THEN -1 ELSE 1
    IN  [n |-> s * (n \div g), d |-> s * (d \div g)]

RInt(x)    == [n |-> x, d |-> 1]
RAdd(a, b) == Rat(a.n * b.d + b.n * a.d, a.d * b.d)
RSub(a, b) == Rat(a.n * b.d - b.n * a.d, a.d * b.d)
RMul(a, b) == Rat(a.n * b.n, a.d * b.d)
RDiv(a, b) == Rat(a.n * b.d, a.d * b.n)
RAbs(a)    == [n |-> Abs(a.n), d |-> a.d]
RLt(a, b)  == a.n * b.d < b.n * a.d
RLe(a, b)  == a.n * b.d <= b.n * a.d
RMin(a, b) == IF RLt(b, a) THEN b ELSE a   \* Python's min(a, b)
RMax(a, b) == IF RLt(a, b) THEN b ELSE a   \* Python's max(a, b)

\* Python's round(): to the nearest integer, a tie to the even one.
RoundHalfEven(a) ==
    LET fl  == a.n \div a.d
        rem == a.n - fl * a.d
    IN  IF 2 * rem < a.d THEN fl
        ELSE IF 2 * rem > a.d THEN fl + 1
        ELSE IF fl % 2 = 0 THEN fl ELSE fl + 1

\* The integer square root, rounded down.
Isqrt(v) == CHOOSE k \in 0..400 : k * k <= v /\ (k + 1) * (k + 1) > v

RECURSIVE SumSeq(_)
SumSeq(q) == IF q = <<>> THEN 0 ELSE Head(q) + SumSeq(Tail(q))

\* A Python dict as a function: d[k] = v, adding k when it is new.
Put(d, k, v) == [x \in DOMAIN d \cup {k} |-> IF x = k THEN v ELSE d[x]]

EmptyDict == [x \in {} |-> 0]

\* The last k elements of a list: q[-k:].
LastN(q, k) == IF Len(q) <= k THEN q ELSE SubSeq(q, Len(q) - k + 1, Len(q))

-----------------------------------------------------------------------------
(* Real_trading.py: configuration                                          *)

\* TradingConfig (lines 79-99) and the module's defaults (lines 70-71)
MAX_POSITIONS == 3
MAX_DAILY_TRADES == 10
MIN_VOLUME_USD == 1000000
MAX_SPREAD_PERCENT == Rat(1, 10)
LEVERAGE == 3
MIN_STOP_LOSS == Rat(1, 2)
MAX_STOP_LOSS == RInt(5)
ATR_MULTIPLIER == RInt(2)
RISK_PER_TRADE == Rat(1, 100)
STOP_LOSS_PERCENT == RInt(2)
TAKE_PROFIT_PERCENT == RInt(2)
PARTIAL_CLOSE_LEVELS ==
    << [profit |-> RInt(1),   close_percent |-> Rat(3, 10)],
       [profit |-> Rat(3, 2), close_percent |-> Rat(3, 10)],
       [profit |-> RInt(2),   close_percent |-> Rat(4, 10)] >>

\* PriceAnalyzer: the history cap (line 443), the volatility window (lines
\* 451-456) and the threshold of the alert and of the entry gate (460, 511)
HISTORY_CAP == 1000
VOL_WINDOW == 20
VOL_THRESHOLD == 100
\* check_margin_usage: at most 80% margin use (line 258)
MAX_MARGIN_RATIO == Rat(8, 10)
\* validate_position_size: at most 10% of the balance (line 290)
MAX_SIZE_FRACTION == Rat(1, 10)
\* handle_socket_message: the liquidation-proximity threshold (line 523)
LIQ_PROXIMITY == Rat(2, 10)

\* Python's None for a price, and a float that is not a number
None == [none |-> TRUE, v |-> 0]
Some(x) == [none |-> FALSE, v |-> x]
NaN == [n |-> 0, d |-> 0]
IsNaN(x) == x.d = 0

-----------------------------------------------------------------------------
(* PriceAnalyzer                                                           *)

\* np.log, in thousandths, of the prices the ticks take.
Ln(price) ==
    CASE price = 80  -> 4382
      [] price = 94  -> 4543
      [] price = 97  -> 4575
      [] price = 100 -> 4605
      [] price = 101 -> 4615
      [] price = 102 -> 4625
      [] price = 103 -> 4635
      [] price = 106 -> 4663
      [] price = 110 -> 4700
      [] price = 150 -> 5011

\* np.std(np.diff(np.log(prices))) * np.sqrt(20) * 100 (lines 455-456), in
\* whole percent.  With R the n log-returns in thousandths, the population
\* variance is (n*sum(R^2) - sum(R)^2) / n^2 / 10^6.
Volatility(prices) ==
    LET n   == Len(prices) - 1
        R   == [i \in 1..n |-> Ln(prices[i + 1]) - Ln(prices[i])]
        S1  == SumSeq(R)
        S2  == SumSeq([i \in 1..n |-> R[i] * R[i]])
        V   == n * S2 - S1 * S1
    IN  Isqrt((V * VOL_WINDOW) \div (n * n * 100))

-----------------------------------------------------------------------------
(* The handler's working state: the program's dicts, the log of what the   *)
(* handler did, and how it ended.                                          *)

Log(st, op, ok) == [st EXCEPT !.calls = Append(@, [op |-> op, ok |-> ok])]
\* The same, for an entry that keeps the arguments or the result of the call.
LogWith(st, entry) == [st EXCEPT !.calls = Append(@, entry)]
Raise(st)       == [st EXCEPT !.raised = TRUE]
Return(st)      == [st EXCEPT !.returned = TRUE]

\* RiskManager.add_price_alert (lines 178-187)
add_price_alert(st, symbol, price, direction) ==
    LET old == IF symbol \in DOMAIN st.price_alerts
               THEN st.price_alerts[symbol] ELSE <<>>
        alert == [price |-> price, direction |-> direction, triggered |-> FALSE]
    IN  [st EXCEPT !.price_alerts = Put(@, symbol, Append(old, alert))]

\* The volatility alert due whatever the volatility.
VolatilityAlertDue_Always(vol) == TRUE

\* Whether _update_volatility adds its alert (line 460).
VolatilityAlertDue(vol) == vol > VOL_THRESHOLD

\* PriceAnalyzer._update_volatility (lines 449-466)
update_volatility(st, symbol) ==
    IF Len(st.price_history[symbol]) < VOL_WINDOW
    THEN st
    ELSE LET window == LastN(st.price_history[symbol], VOL_WINDOW)
             prices == [i \in 1..Len(window) |-> window[i].price]
             vol    == Volatility(prices)
             s1     == [st EXCEPT !.volatility = Put(@, symbol, vol)]
         IN  IF VolatilityAlertDue(vol)
             THEN add_price_alert(s1, symbol, prices[Len(prices)], "both")
             ELSE s1

\* The cut keeping the oldest samples.
HistoryCut_DropNewest(history) ==
    IF Len(history) > HISTORY_CAP THEN SubSeq(history, 1, HISTORY_CAP) ELSE history

\* The cut of the history to its cap (lines 443-444).
HistoryCut(history) ==
    IF Len(history) > HISTORY_CAP THEN LastN(history, HISTORY_CAP) ELSE history

\* PriceAnalyzer.update_price_data (lines 433-447)
update_price_data(st, symbol, price, timestamp) ==
    LET old == IF symbol \in DOMAIN st.price_history
               THEN st.price_history[symbol] ELSE <<>>
        new == Append(old, [price |-> price, timestamp |-> timestamp])
        cut == HistoryCut(new)
    IN  update_volatility([st EXCEPT !.price_history = Put(@, symbol, cut)], symbol)

-----------------------------------------------------------------------------
(* RiskManager                                                             *)

IsStopMarket(order) == order.type = "STOP_MARKET"

\* RiskManager.update_stop_loss_order (lines 225-252); usl: what the exchange
\* does: "ok", or the call that raises: "get_fail", "cancel_fail", "create_fail"
update_stop_loss_order(st, symbol, new_stop_price, usl) ==
    LET position == st.open_positions[symbol]
        s1 == Log(st, "futures_get_open_orders", usl # "get_fail")
        live == st.orders[symbol]
        hasStop == \E i \in 1..Len(live) : IsStopMarket(live[i])
        s2 == IF hasStop THEN Log(s1, "futures_cancel_order", usl # "cancel_fail")
              ELSE s1
        s3 == [s2 EXCEPT !.orders[symbol] =
                  SelectSeq(@, LAMBDA o : ~IsStopMarket(o))]
        s4 == Log(s3, "create_STOP_MARKET", usl # "create_fail")
        s5 == [s4 EXCEPT !.orders[symbol] =
                  Append(@, [type |-> "STOP_MARKET", stopPrice |-> new_stop_price,
                             quantity |-> position.quantity]),
                         !.open_positions[symbol].stop_loss = new_stop_price]
    IN  IF usl = "get_fail" THEN s1
        ELSE IF hasStop /\ usl = "cancel_fail" THEN s2
        ELSE IF usl = "create_fail" THEN s4
        ELSE s5

\* The stop a Long trailing stop proposes for a new highest price (line 207).
NewStop(current_price, distance_percent) ==
    RMul(RInt(current_price), RSub(RInt(1), RDiv(distance_percent, RInt(100))))

\* RaisesStop without its comparison: every proposed stop is taken.
RaisesStop_Always(new_stop, stop_price) == TRUE

\* Whether the proposed stop replaces the tracked one (line 208).
RaisesStop(new_stop, stop_price) == RLt(stop_price, new_stop)

\* RiskManager.update_trailing_stop (lines 189-211)
update_trailing_stop(st, symbol, current_price, usl) ==
    IF symbol \notin DOMAIN st.open_positions THEN st
    ELSE LET position == st.open_positions[symbol] IN
         IF symbol \notin DOMAIN st.trailing_stops
         THEN LET initial_stop == position.stop_loss IN
              [st EXCEPT !.trailing_stops = Put(@, symbol,
                  [highest_price |-> current_price,
                   stop_price |-> initial_stop,
                   distance_percent |->
                       RMul(RDiv(RAbs(RSub(RInt(current_price), initial_stop)),
                                 RInt(current_price)), RInt(100))])]
         ELSE LET trailing == st.trailing_stops[symbol] IN
              IF position.side = "long" /\ current_price > trailing.highest_price
              THEN LET s1 == [st EXCEPT !.trailing_stops[symbol].highest_price =
                                            current_price]
                       new_stop == NewStop(current_price, trailing.distance_percent)
                   IN  IF RaisesStop(new_stop, trailing.stop_price)
                       THEN update_stop_loss_order(
                                [s1 EXCEPT !.trailing_stops[symbol].stop_price = new_stop],
                                symbol, new_stop, usl)
                       ELSE s1
              ELSE st

\* Whether an untriggered alert fires at this price (lines 218-219).
AlertFires(alert, current_price) ==
    \/ alert.direction = "above" /\ current_price > alert.price
    \/ alert.direction = "below" /\ current_price < alert.price

\* Every alert pending, triggered or not.
AlertPending_Always(alert) == TRUE

\* Whether check_price_alerts still looks at an alert (line 217).
AlertPending(alert) == ~alert.triggered

\* RiskManager.check_price_alerts (lines 213-223).  Each alert that fires is
\* reported (lines 220-221), then the beep sounds (222), then the alert is
\* marked (223); beep_ok: whether winsound.Beep returns or raises, which
\* ends the loop at the first alert that fires, reported and not marked.
check_price_alerts(st, symbol, current_price, beep_ok) ==
    IF symbol \notin DOMAIN st.price_alerts THEN st
    ELSE LET alerts == st.price_alerts[symbol]
             due == SelectSeq([i \in 1..Len(alerts) |-> i],
                              LAMBDA i : AlertPending(alerts[i])
                                         /\ AlertFires(alerts[i], current_price))
             report(i) == [op |-> "alert", ok |-> TRUE, index |-> i]
         IN  IF due = <<>> THEN st
             ELSE IF ~beep_ok
             THEN Raise(Log(LogWith(st, report(due[1])), "Beep", FALSE))
             ELSE [st EXCEPT
                      !.calls = @ \o [k \in 1..Len(due) |-> report(due[k])],
                      !.price_alerts[symbol] =
                          [i \in 1..Len(@) |->
                              IF AlertPending(@[i]) /\ AlertFires(@[i], current_price)
                              THEN [@[i] EXCEPT !.triggered = TRUE]
                              ELSE @[i]]]

\* MarginOk failing open: a failed fetch passes the gate.
MarginOk_FailOpen(account) ==
    IF ~account.ok \/ account.wallet = 0 THEN TRUE
    ELSE RLe(Rat(account.margin, account.wallet), MAX_MARGIN_RATIO)

\* RiskManager.check_margin_usage (lines 254-261): the value it returns for an
\* account state; a failed fetch and a zero wallet balance raise inside the try.
MarginOk(account) ==
    IF ~account.ok \/ account.wallet = 0 THEN FALSE
    ELSE RLe(Rat(account.margin, account.wallet), MAX_MARGIN_RATIO)

\* PositionsFull off by one: > for >=.
PositionsFull_OffByOne(positions) == Cardinality(DOMAIN positions) > MAX_POSITIONS

\* RiskManager.check_entry_conditions, first test (line 123)
PositionsFull(positions) == Cardinality(DOMAIN positions) >= MAX_POSITIONS

\* RiskManager.check_entry_conditions, second test (line 128)
VolumeTooLow(ticker) == ticker.volume * ticker.lastPrice < MIN_VOLUME_USD

\* RiskManager.check_entry_conditions, third test (lines 133-134)
SpreadTooWide(book) ==
    RLt(MAX_SPREAD_PERCENT,
        RMul(Rat(book.ask - book.bid, book.bid), RInt(100)))

\* check_entry_conditions going on to the spread after the volume test failed.
check_entry_conditions_NoShortCircuit(st, symbol, env) ==
    IF PositionsFull(st.open_positions)
    THEN [st |-> Log(st, "gate_count", FALSE), ret |-> FALSE]
    ELSE LET s1 == Log(Log(st, "gate_count", TRUE), "futures_ticker", env.ticker.ok) IN
         IF ~env.ticker.ok THEN [st |-> s1, ret |-> FALSE]
         ELSE LET low == VolumeTooLow(env.ticker)
                  s2 == Log(Log(s1, "gate_volume", ~low),
                            "futures_order_book", env.book.ok) IN
              IF ~env.book.ok \/ env.book.bid = 0 THEN [st |-> s2, ret |-> FALSE]
              ELSE IF SpreadTooWide(env.book)
              THEN [st |-> Log(s2, "gate_spread", FALSE), ret |-> FALSE]
              ELSE [st |-> Log(s2, "gate_spread", TRUE), ret |-> ~low]

\* RiskManager.check_entry_conditions (lines 119-141): [st, ret]
check_entry_conditions(st, symbol, env) ==
    IF PositionsFull(st.open_positions)
    THEN [st |-> Log(st, "gate_count", FALSE), ret |-> FALSE]
    ELSE LET s1 == Log(Log(st, "gate_count", TRUE), "futures_ticker", env.ticker.ok) IN
         IF ~env.ticker.ok THEN [st |-> s1, ret |-> FALSE]
         ELSE IF VolumeTooLow(env.ticker)
         THEN [st |-> Log(s1, "gate_volume", FALSE), ret |-> FALSE]
         ELSE LET s2 == Log(Log(s1, "gate_volume", TRUE),
                            "futures_order_book", env.book.ok) IN
              IF ~env.book.ok \/ env.book.bid = 0 THEN [st |-> s2, ret |-> FALSE]
              ELSE IF SpreadTooWide(env.book)
              THEN [st |-> Log(s2, "gate_spread", FALSE), ret |-> FALSE]
              ELSE [st |-> Log(s2, "gate_spread", TRUE), ret |-> TRUE]

\* Python's max(min(x, MAX_STOP_LOSS), MIN_STOP_LOSS) (lines 161-162): every
\* comparison with a NaN is false, so a NaN comes back as it went in.
ClampStop(x) ==
    IF IsNaN(x) THEN NaN ELSE RMax(RMin(x, MAX_STOP_LOSS), MIN_STOP_LOSS)

\* Whether the try block of calculate_dynamic_stops raises: the empty frame
\* get_futures_klines returns on a failure has no 'high' column (line 147).
DynamicStopsRaises(df) == df.kind = "empty"

\* The take profit at one to one.
TakeProfitFor_OneToOne(stop_loss_percent) == stop_loss_percent

\* take_profit_percent = stop_loss_percent * 1.5 (line 164); a NaN stays NaN.
TakeProfitFor(stop_loss_percent) ==
    IF IsNaN(stop_loss_percent) THEN NaN
    ELSE RMul(stop_loss_percent, Rat(3, 2))

\* RiskManager.calculate_dynamic_stops (lines 143-170) on the klines df:
\* "empty" (get_futures_klines failed: the column lookup raises), "short"
\* (fewer than 14 bars: the rolling mean is NaN) or "ok" with its ATR and last
\* close.  Returns <<stop_loss_percent, take_profit_percent>>.
calculate_dynamic_stops(df) ==
    IF DynamicStopsRaises(df) THEN <<STOP_LOSS_PERCENT, TAKE_PROFIT_PERCENT>>
    ELSE LET atr == IF df.kind = "short" THEN NaN ELSE df.atr
             stop_loss_percent ==
                 ClampStop(IF IsNaN(atr) THEN NaN
                           ELSE RMul(RDiv(RMul(atr, ATR_MULTIPLIER), RInt(df.close)),
                                     RInt(100)))
         IN  <<stop_loss_percent, TakeProfitFor(stop_loss_percent)>>

\* The size without the leverage.
calculate_position_size_NoLeverage(balance, entry_price, stop_loss_price) ==
    LET price_diff_percent ==
            RMul(RDiv(RAbs(RSub(RInt(entry_price), stop_loss_price)),
                      RInt(entry_price)), RInt(100))
        risk_amount == RMul(RInt(balance), RISK_PER_TRADE)
    IN  RDiv(risk_amount, price_diff_percent)

\* TradingConfig.calculate_position_size (lines 101-107)
calculate_position_size(balance, entry_price, stop_loss_price) ==
    LET price_diff_percent ==
            RMul(RDiv(RAbs(RSub(RInt(entry_price), stop_loss_price)),
                      RInt(entry_price)), RInt(100))
        risk_amount == RMul(RInt(balance), RISK_PER_TRADE)
    IN  RMul(RDiv(risk_amount, price_diff_percent), RInt(LEVERAGE))

\* The size without its cap.
validate_position_size_NoCap(position_size, balance) == position_size

\* RiskManager.validate_position_size (lines 289-291)
validate_position_size(position_size, balance) ==
    RMin(position_size, RMul(RInt(balance), MAX_SIZE_FRACTION))

\* round_price (lines 308-309)
round_price(price, tick_size) ==
    RInt(RoundHalfEven(RDiv(price, RInt(tick_size))) * tick_size)

\* RiskManager.calculate_liquidation_price (lines 273-287)
calculate_liquidation_price(position) ==
    IF position.side = "long"
    THEN RMul(RInt(position.entry_price), RSub(RInt(1), Rat(1, LEVERAGE)))
    ELSE RMul(RInt(position.entry_price), RAdd(RInt(1), Rat(1, LEVERAGE)))

-----------------------------------------------------------------------------
(* open_position and handle_socket_message                                 *)

\* An exception caught by open_position's own except clause (lines 411-412).
OpenPositionError(st) == Log(st, "open_position_error", FALSE)

\* A protective order at half the quantity.
ProtectiveOrder_Half(type, stopPrice, quantity) ==
    [type |-> type, stopPrice |-> stopPrice, quantity |-> RMul(quantity, Rat(1, 2))]

\* The STOP_MARKET and TAKE_PROFIT_MARKET orders of open_position (lines
\* 383-398): the trigger price and the quantity of the entry.
ProtectiveOrder(type, stopPrice, quantity) ==
    [type |-> type, stopPrice |-> stopPrice, quantity |-> quantity]

\* open_position, from the market order on (lines 364-409)
PlaceAndRecord(st, symbol, side, price, stops, balance, env) ==
    LET stop_loss_price ==
            RMul(RInt(price), RSub(RInt(1), RDiv(stops[1], RInt(100))))
        take_profit_price ==
            RMul(RInt(price), RAdd(RInt(1), RDiv(stops[2], RInt(100))))
        quantity ==
            validate_position_size(
                calculate_position_size(balance, price, stop_loss_price),
                balance)
        o1 == LogWith(st, [op |-> "create_MARKET", ok |-> env.market_ok,
                           quantity |-> quantity])
        ob == Log(o1, "Beep", env.beep_ok)
        o2 == Log(ob, "futures_exchange_info", env.tick_size # 0)
        sl == round_price(stop_loss_price, env.tick_size)
        tp == round_price(take_profit_price, env.tick_size)
        slo == ProtectiveOrder("STOP_MARKET", sl, quantity)
        tpo == ProtectiveOrder("TAKE_PROFIT_MARKET", tp, quantity)
        o3 == LogWith(o2, [op |-> "create_STOP_MARKET", ok |-> env.sl_ok,
                           quantity |-> slo.quantity])
        o4 == [o3 EXCEPT !.orders[symbol] = Append(@, slo)]
        o5 == LogWith(o4, [op |-> "create_TAKE_PROFIT_MARKET", ok |-> env.tp_ok,
                           quantity |-> tpo.quantity])
        o6 == [o5 EXCEPT !.orders[symbol] = Append(@, tpo)]
        o7 == [o6 EXCEPT !.open_positions = Put(@, symbol,
                  [side |-> side, quantity |-> quantity, entry_price |-> price,
                   stop_loss |-> sl, take_profit |-> tp]),
                         !.level_fired[symbol] = [i \in DOMAIN @ |-> 0]]
    IN  IF ~env.market_ok THEN OpenPositionError(o1)
        ELSE IF ~env.beep_ok THEN OpenPositionError(ob)
        ELSE IF env.tick_size = 0 THEN OpenPositionError(o2)
        ELSE IF ~env.sl_ok THEN OpenPositionError(o3)
        ELSE IF ~env.tp_ok THEN OpenPositionError(o5)
        ELSE Log(o7, "record_position", TRUE)

\* open_position (lines 330-412)
open_position(st, symbol, side, price, env) ==
    LET m1 == Log(st, "futures_account", env.account.ok)
        m2 == IF env.account.ok /\ env.account.wallet # 0
              THEN Log(m1, "gate_margin", MarginOk(env.account)) ELSE m1
    IN  IF ~MarginOk(env.account) THEN m2
        ELSE
        LET l1 == Log(m2, "futures_change_leverage", env.leverage_ok)
            ce == check_entry_conditions(l1, symbol, env)
        IN  IF ~ce.ret THEN ce.st
            ELSE
            LET b1 == Log(ce.st, "futures_account", env.balance.ok) IN
            IF ~env.balance.ok THEN OpenPositionError(b1)
            ELSE
            LET stops == calculate_dynamic_stops(env.klines)
                k1 == LogWith(Log(b1, "klines", env.klines.kind # "empty"),
                              [op |-> "calculate_dynamic_stops",
                               ok |-> ~DynamicStopsRaises(env.klines),
                               stop_loss_percent |-> stops[1],
                               take_profit_percent |-> stops[2]])
            IN  IF IsNaN(stops[1])
                THEN \* the quantity is NaN: the exchange refuses the order
                     OpenPositionError(
                         LogWith(k1, [op |-> "create_MARKET", ok |-> FALSE,
                                      quantity |-> NaN]))
                ELSE PlaceAndRecord(k1, symbol, side, price, stops,
                                    env.balance.wallet, env)

\* pnl_percent of handle_socket_message (lines 492-493)
PnlPercent(position, price) ==
    RMul(RMul(RDiv(RInt(price - position.entry_price), RInt(position.entry_price)),
              RInt(100)),
         RInt(IF position.side = "long" THEN 1 ELSE -1))

\* The ladder level the loop of lines 495-499 stops at: the first one, in
\* list order, whose profit the pnl has reached; 0 when there is none.
FirstLevelMet(pnl_percent) ==
    LET met == {i \in 1..Len(PARTIAL_CLOSE_LEVELS) :
                   RLe(PARTIAL_CLOSE_LEVELS[i].profit, pnl_percent)}
    IN  IF met = {} THEN 0 ELSE CHOOSE i \in met : \A j \in met : i <= j

\* risk_manager.partial_close_position (called at line 498): class RiskManager
\* (lines 109-291) defines no such method, so the call raises AttributeError.
partial_close_position(st, symbol, close_amount) ==
    Raise(Log(st, "partial_close_position", FALSE))

\* handle_socket_message, the partial-close check (lines 488-499)
PartialCloseCheck(st, symbol, price) ==
    IF symbol \notin DOMAIN st.open_positions THEN st
    ELSE LET position == st.open_positions[symbol]
             level == FirstLevelMet(PnlPercent(position, price))
         IN  IF level = 0 THEN st
             ELSE partial_close_position(
                      [st EXCEPT !.level_fired[symbol][level] = @ + 1],
                      symbol,
                      RMul(position.quantity, PARTIAL_CLOSE_LEVELS[level].close_percent))

\* handle_socket_message, the block run when the price changed (lines 476-499)
PriceChanged(st, symbol, price, timestamp, env) ==
    LET s1 == [st EXCEPT !.previous_prices = Put(@, symbol, price)]
        \* s2, the state after update_price_data, is computed once
    IN  CHOOSE r \in
          { LET s3 == update_trailing_stop(s2, symbol, price, env.usl)
                s4 == check_price_alerts(s3, symbol, price, env.beep_ok)
            IN  IF s4.raised THEN s4 ELSE PartialCloseCheck(s4, symbol, price)
            : s2 \in {update_price_data(Log(s1, "update_price_data", TRUE),
                                        symbol, price, timestamp)} } : TRUE

\* The volatility gate switched off.
VolatilityTooHigh_Off(vol, symbol) == FALSE

\* The volatility gate of handle_socket_message (lines 509-513)
VolatilityTooHigh(vol, symbol) ==
    symbol \in DOMAIN vol /\ vol[symbol] > VOL_THRESHOLD

\* handle_socket_message, target and entry (lines 501-515)
TargetAndEntry(st, symbol, price, env) ==
    LET s1 == IF symbol \notin DOMAIN st.TARGET_PRICES \/ st.TARGET_PRICES[symbol].none
              THEN [Log(st, "determine_target_price", ~env.target.none)
                       EXCEPT !.TARGET_PRICES = Put(@, symbol, env.target)]
              ELSE st
        target_price == s1.TARGET_PRICES[symbol]
    IN  IF ~target_price.none /\ target_price.v # 0 /\ price <= target_price.v
        THEN IF symbol \in DOMAIN s1.volatility
             THEN IF VolatilityTooHigh(s1.volatility, symbol)
                  THEN Return(Log(s1, "gate_volatility", FALSE))
                  ELSE open_position(Log(s1, "gate_volatility", TRUE),
                                     symbol, "long", price, env)
             ELSE open_position(s1, symbol, "long", price, env)
        ELSE s1

\* handle_socket_message, the liquidation check (lines 517-525)
LiquidationCheck(st, symbol, price) ==
    IF symbol \notin DOMAIN st.open_positions THEN st
    ELSE LET liq_price == calculate_liquidation_price(st.open_positions[symbol]) IN
         IF RLt(RDiv(RAbs(RSub(RInt(price), liq_price)), RInt(price)), LIQ_PROXIMITY)
         THEN Log(st, "liquidation_warning", TRUE)
         ELSE st

\* handle_socket_message (lines 469-528), as a function of the state
HandleTick(st, symbol, price, timestamp, env) ==
    LET changed == \/ symbol \notin DOMAIN st.previous_prices
                   \/ st.previous_prices[symbol] # price
        a1 == IF changed THEN PriceChanged(st, symbol, price, timestamp, env) ELSE st
        a2 == IF a1.raised THEN a1 ELSE TargetAndEntry(a1, symbol, price, env)
    IN  IF a2.raised \/ a2.returned THEN a2 ELSE LiquidationCheck(a2, symbol, price)

\* The E field of the next aggTrade message of a symbol: later than the last.
NextTimestamp(symbol) ==
    IF symbol \in DOMAIN price_history /\ price_history[symbol] # <<>>
    THEN price_history[symbol][Len(price_history[symbol])].timestamp + 1
    ELSE 1

\* The program's dicts as the handler finds them.
EngineState ==
    [TARGET_PRICES |-> TARGET_PRICES, previous_prices |-> previous_prices,
     price_history |-> price_history, volatility |-> volatility,
     price_alerts |-> price_alerts, open_positions |-> open_positions,
     trailing_stops |-> trailing_stops, orders |-> orders,
     level_fired |-> level_fired, calls |-> <<>>,
     raised |-> FALSE, returned |-> FALSE]

\* handle_socket_message(msg) for an aggTrade message of a subscribed symbol
handle_socket_message(symbol, price, env) ==
    /\ symbol \in subscribed
    /\ \E r \in {HandleTick(EngineState, symbol, price, NextTimestamp(symbol), env)} :
           /\ TARGET_PRICES' = r.TARGET_PRICES
           /\ previous_prices' = r.previous_prices
           /\ price_history' = r.price_history
           /\ volatility' = r.volatility
           /\ price_alerts' = r.price_alerts
           /\ open_positions' = r.open_positions
           /\ trailing_stops' = r.trailing_stops
           /\ orders' = r.orders
           /\ level_fired' = r.level_fired
           /\ entry_orders' = IF \E i \in 1..Len(r.calls) :
                                    r.calls[i].op = "create_MARKET" /\ r.calls[i].ok
                              THEN entry_orders + 1 ELSE entry_orders
           /\ calls' = IF r.raised THEN Append(r.calls, [op |-> "handler_error", ok |-> FALSE])
                       ELSE r.calls
    /\ last_tick' = [symbol |-> symbol, price |-> price]
    /\ nticks' = nticks + 1
    /\ UNCHANGED <<subscribed, feed_vars, calc_vars, req_vars, status_vars,
                   trader_vars, ws_vars>>

\* The number of alerts registered for a symbol.
AlertCount(alerts, s) == IF s \in DOMAIN alerts THEN Len(alerts[s]) ELSE 0

\* A call of risk_manager.add_price_alert(symbol, price, direction, message)
add_alert(symbol, price, direction) ==
    /\ price_alerts' = add_price_alert(EngineState, symbol, price, direction).price_alerts
    /\ UNCHANGED <<subscribed, TARGET_PRICES, previous_prices, price_history,
                   volatility, open_positions, trailing_stops, orders, calls,
                   last_tick, level_fired, nticks, entry_orders, feed_vars,
                   calc_vars, req_vars, status_vars, trader_vars, ws_vars>>

\* main(), a line of symbols typed by the user (lines 685-693): the socket is
\* started, then the target price is set.
main_subscribe(symbol, target) ==
    /\ symbol \notin subscribed
    /\ subscribed' = subscribed \cup {symbol}
    /\ TARGET_PRICES' = Put(TARGET_PRICES, symbol, target)
    /\ UNCHANGED <<previous_prices, price_history, volatility, price_alerts,
                   open_positions, trailing_stops, orders, calls, last_tick,
                   level_fired, nticks, entry_orders, feed_vars, calc_vars,
                   req_vars, status_vars, trader_vars, ws_vars>>

-----------------------------------------------------------------------------
(* Initial states, inputs and specifications                               *)

\* No request of futures_sign.py is running, no status command either.
AuxIdle ==
    /\ req_pc = "idle"
    /\ req_fn = "none"
    /\ req_initial = 0
    /\ req_retries = 0
    /\ req_attempts = 0
    /\ req_result = "none"
    /\ status_pc = "idle"
    /\ status_keys = {}
    /\ status_todo = {}
    /\ status_seen = NoCall
    /\ status_result = "none"
    /\ price_alert_sent = FALSE
    /\ target_alert = NoCall
    /\ fired_since_reset = [s \in Symbols |-> FALSE]
    /\ ws = "none"
    /\ keepalive_tasks = 0
    /\ ws_pc = "idle"
    /\ ws_pongs = 0
    /\ ws_connects = 0

\* RiskManager.__init__, PriceAnalyzer.__init__ and the module's globals
EngineCold ==
    /\ sizing = NoCall
    /\ AuxIdle
    /\ subscribed = {}
    /\ TARGET_PRICES = EmptyDict
    /\ previous_prices = EmptyDict
    /\ price_history = EmptyDict
    /\ volatility = EmptyDict
    /\ price_alerts = EmptyDict
    /\ open_positions = EmptyDict
    /\ trailing_stops = EmptyDict
    /\ orders = [s \in Symbols |-> <<>>]
    /\ calls = <<>>
    /\ last_tick = [symbol |-> NoSymbol, price |-> 0]
    /\ level_fired = [s \in Symbols |-> [i \in 1..Len(PARTIAL_CLOSE_LEVELS) |-> 0]]
    /\ nticks = 0
    /\ entry_orders = 0

\* The target prices determine_target_price gives, in ticks.
Targets == {100}
Target == CHOOSE x \in Targets : TRUE

\* The engine after WarmLen ticks of one symbol, all above its target price: no
\* entry was tried and the volatility is not known yet.  The prices alternate
\* between lo and hi, which differ: a tick that repeats the last price is
\* not recorded.
WarmLen == VOL_WINDOW - 1
WarmHistory(lo, hi) ==
    [i \in 1..WarmLen |-> [price |-> IF i % 2 = 1 THEN lo ELSE hi, timestamp |-> i]]

EngineWarm(symbol, lo, hi) ==
    /\ sizing = NoCall
    /\ AuxIdle
    /\ subscribed = {symbol}
    /\ TARGET_PRICES = Put(EmptyDict, symbol, Some(Target))
    /\ previous_prices = Put(EmptyDict, symbol, WarmHistory(lo, hi)[WarmLen].price)
    /\ price_history = Put(EmptyDict, symbol, WarmHistory(lo, hi))
    /\ volatility = EmptyDict
    /\ price_alerts = EmptyDict
    /\ open_positions = EmptyDict
    /\ trailing_stops = EmptyDict
    /\ orders = [s \in Symbols |-> <<>>]
    /\ calls = <<>>
    /\ last_tick = [symbol |-> symbol, price |-> WarmHistory(lo, hi)[WarmLen].price]
    /\ level_fired = [s \in Symbols |-> [i \in 1..Len(PARTIAL_CLOSE_LEVELS) |-> 0]]
    /\ nticks = 0
    /\ entry_orders = 0

\* What the exchange answers during one handler run, every call succeeding:
\* margin use 50%, 24h volume 20000 x 100, spread 0.05%, balance 1000, an ATR
\* of 3 at a close of 200 (a 3% stop), tick size 1; the speaker beeps.
DefaultEnv ==
    [target      |-> Some(Target),
     account     |-> [ok |-> TRUE, margin |-> 500, wallet |-> 1000],
     leverage_ok |-> TRUE,
     ticker      |-> [ok |-> TRUE, volume |-> 20000, lastPrice |-> 100],
     book        |-> [ok |-> TRUE, ask |-> 100050, bid |-> 100000],
     balance     |-> [ok |-> TRUE, wallet |-> 1000],
     klines      |-> [kind |-> "ok", atr |-> RInt(3), close |-> 200],
     market_ok   |-> TRUE,
     beep_ok     |-> TRUE,
     tick_size   |-> 1,
     sl_ok       |-> TRUE,
     tp_ok       |-> TRUE,
     usl         |-> "ok"]

\* One call failing, or one answer that closes a gate.
GateEnvs ==
    { DefaultEnv,
      [DefaultEnv EXCEPT !.account.ok = FALSE],
      [DefaultEnv EXCEPT !.account.margin = 900],
      [DefaultEnv EXCEPT !.ticker.ok = FALSE],
      [DefaultEnv EXCEPT !.ticker.volume = 5000],
      [DefaultEnv EXCEPT !.book.ok = FALSE],
      [DefaultEnv EXCEPT !.book.ask = 101000],
      [DefaultEnv EXCEPT !.balance.ok = FALSE] }

\* The klines failing, too short, or with an ATR that gives a stop of 20%,
\* 0.1% or 4.5%; an order refused; winsound.Beep raising RuntimeError; no
\* tick size found for the symbol.
OrderEnvs ==
    { [DefaultEnv EXCEPT !.klines.kind = "empty"],
      [DefaultEnv EXCEPT !.klines.kind = "short"],
      [DefaultEnv EXCEPT !.klines.atr = RInt(20)],
      [DefaultEnv EXCEPT !.klines.atr = Rat(1, 10)],
      [DefaultEnv EXCEPT !.klines.atr = Rat(9, 2)],
      [DefaultEnv EXCEPT !.market_ok = FALSE],
      [DefaultEnv EXCEPT !.beep_ok = FALSE],
      [DefaultEnv EXCEPT !.tick_size = 0],
      [DefaultEnv EXCEPT !.sl_ok = FALSE],
      [DefaultEnv EXCEPT !.tp_ok = FALSE] }

StopEnvs ==
    { [DefaultEnv EXCEPT !.usl = "get_fail"],
      [DefaultEnv EXCEPT !.usl = "cancel_fail"],
      [DefaultEnv EXCEPT !.usl = "create_fail"] }

\* ---- Spec: several symbols, the entry gates ----
MaxTicks == 4
Prices == {100}
\* The order in which the user subscribes the symbols.
SymbolOrder == <<"BTCUSDT", "ETHUSDT", "BNBUSDT", "ADAUSDT">>

Init ==
    /\ FeedIdle
    /\ \/ EngineCold
       \/ EngineWarm("BTCUSDT", 110, 106)
       \/ EngineWarm("BTCUSDT", 110, 150)

Next ==
    \/ /\ Cardinality(subscribed) < Len(SymbolOrder)
       /\ main_subscribe(SymbolOrder[Cardinality(subscribed) + 1], Some(Target))
    \/ /\ nticks < MaxTicks
       /\ \E symbol \in Symbols, price \in Prices, env \in GateEnvs :
             handle_socket_message(symbol, price, env)

Spec == Init /\ [][Next]_vars

\* ---- SpecTrail: one symbol, the trailing stop and the ladder ----
MaxTrailTicks == 5
TrailPrices == {94, 97, 100, 101, 103}

InitTrail ==
    /\ FeedIdle
    /\ EngineCold

NextTrail ==
    \/ \E target \in {None, Some(Target)} : main_subscribe("BTCUSDT", target)
    \/ /\ nticks < MaxTrailTicks
       /\ \E price \in TrailPrices, env \in {DefaultEnv} \cup StopEnvs :
             handle_socket_message("BTCUSDT", price, env)

SpecTrail == InitTrail /\ [][NextTrail]_vars

\* ---- SpecOrder: one symbol, what open_position meets after its gates ----
MaxOrderTicks == 3
OrderPrices == {100, 101, 106}

InitOrder ==
    /\ FeedIdle
    /\ EngineCold

NextOrder ==
    \/ main_subscribe("BTCUSDT", Some(Target))
    \/ /\ nticks < MaxOrderTicks
       /\ \E price \in OrderPrices, env \in {DefaultEnv} \cup OrderEnvs :
             handle_socket_message("BTCUSDT", price, env)

SpecOrder == InitOrder /\ [][NextOrder]_vars

\* ---- SpecSizing: the sizing functions on their own ----
\* Balances are 0, 10, .., 10 * MaxBalance; sizes 0, 1/2, .., MaxSize / 2.
MaxBalance == 10
MaxSize == 24
SizingBalances == {1000, 10000}
SizingEntries == {100, 200}
SizingStops == 95..100

\* risk_manager.validate_position_size(position_size, balance)
size_validate(position_size, balance) ==
    /\ sizing' = [fn |-> "validate_position_size",
                  position_size |-> position_size, balance |-> balance,
                  result |-> validate_position_size(position_size, balance)]
    /\ UNCHANGED <<feed_vars, engine_vars, req_vars, status_vars, trader_vars, ws_vars>>

\* The two sizing lines of open_position (359 and 362): the size for the risk,
\* then its cap.  A stop at the entry price divides by zero.
size_calculate(balance, entry_price, stop_loss_price) ==
    /\ sizing' =
           IF stop_loss_price = entry_price
           THEN [fn |-> "calculate_position_size", balance |-> balance,
                 entry_price |-> entry_price, stop_loss_price |-> stop_loss_price,
                 raised |-> TRUE]
           ELSE LET raw == calculate_position_size(balance, entry_price,
                                                   RInt(stop_loss_price))
                IN  [fn |-> "calculate_position_size", balance |-> balance,
                     entry_price |-> entry_price, stop_loss_price |-> stop_loss_price,
                     raised |-> FALSE, raw |-> raw,
                     result |-> validate_position_size(raw, balance)]
    /\ UNCHANGED <<feed_vars, engine_vars, req_vars, status_vars, trader_vars, ws_vars>>

InitSizing ==
    /\ FeedIdle
    /\ EngineCold

NextSizing ==
    \/ \E k \in 0..MaxSize, b \in 0..MaxBalance : size_validate(Rat(k, 2), 10 * b)
    \/ \E balance \in SizingBalances, entry_price \in SizingEntries,
          stop_loss_price \in SizingStops :
          size_calculate(balance, entry_price, stop_loss_price)

SpecSizing == InitSizing /\ [][NextSizing]_vars

\* ---- SpecLiq: one symbol, a position held through a volatile market ----
\* An entry at the target, then a market swinging between 150 and 110, or one
\* moving between 102 and 101, until the volatility window is one sample
\* short; free ticks after that.
VolatileTicks ==
    [i \in 1..WarmLen |-> IF i = 1 THEN Target ELSE IF i % 2 = 0 THEN 150 ELSE 110]
CalmTicks ==
    [i \in 1..WarmLen |-> IF i = 1 THEN Target ELSE IF i % 2 = 0 THEN 102 ELSE 101]
Markets == {VolatileTicks, CalmTicks}

MaxLiqTicks == 3
LiqPrices == {80, 100, 150}
LiqEnvs == {DefaultEnv, [DefaultEnv EXCEPT !.account.margin = 900]}

InitLiq ==
    /\ FeedIdle
    /\ EngineCold

NextLiq ==
    \/ main_subscribe("BTCUSDT", Some(Target))
    \/ /\ nticks < WarmLen
       /\ \E market \in Markets :
             /\ nticks > 0 => previous_prices["BTCUSDT"] = market[nticks]
             /\ \E price \in {market[nticks + 1]} :
                   handle_socket_message("BTCUSDT", price, DefaultEnv)
    \/ /\ nticks >= WarmLen
       /\ nticks < WarmLen + MaxLiqTicks
       /\ \E price \in LiqPrices, env \in LiqEnvs :
             handle_socket_message("BTCUSDT", price, env)

SpecLiq == InitLiq /\ [][NextLiq]_vars

\* ---- SpecCap: one symbol, a price history at its cap ----
\* The engine after n ticks of one symbol moving between 102 and 103, all above
\* its target price: no entry was tried, the volatility is that of the last
\* VOL_WINDOW samples, no alert was added.
LongHistory(n) ==
    [i \in 1..n |-> [price |-> IF i % 2 = 1 THEN 102 ELSE 103, timestamp |-> i]]

EngineLong(symbol, n) ==
    /\ sizing = NoCall
    /\ AuxIdle
    /\ subscribed = {symbol}
    /\ TARGET_PRICES = Put(EmptyDict, symbol, Some(Target))
    /\ previous_prices = Put(EmptyDict, symbol, LongHistory(n)[n].price)
    /\ price_history = Put(EmptyDict, symbol, LongHistory(n))
    /\ volatility = Put(EmptyDict, symbol,
                        Volatility([i \in 1..VOL_WINDOW |->
                                       LongHistory(n)[n - VOL_WINDOW + i].price]))
    /\ price_alerts = EmptyDict
    /\ open_positions = EmptyDict
    /\ trailing_stops = EmptyDict
    /\ orders = [s \in Symbols |-> <<>>]
    /\ calls = <<[op |-> "update_price_data", ok |-> TRUE]>>
    /\ last_tick = [symbol |-> symbol, price |-> LongHistory(n)[n].price]
    /\ level_fired = [s \in Symbols |-> [i \in 1..Len(PARTIAL_CLOSE_LEVELS) |-> 0]]
    /\ nticks = 0
    /\ entry_orders = 0

MaxCapTicks == 4
CapPrices == {101, 102, 103}

InitCap ==
    /\ FeedIdle
    /\ \/ EngineCold
       \/ EngineLong("BTCUSDT", HISTORY_CAP - 2)

NextCap ==
    \/ main_subscribe("BTCUSDT", Some(Target))
    \/ /\ nticks < MaxCapTicks
       /\ \E price \in CapPrices : handle_socket_message("BTCUSDT", price, DefaultEnv)

SpecCap == InitCap /\ [][NextCap]_vars

\* ---- SpecAlert: one symbol without a target price, alerts of every kind ----
MaxAlerts == 2
MaxAlertTicks == 3
AlertPrices == {97, 100, 103}
AlertLevels == {100}
Directions == {"above", "below", "both"}
\* No target price can be determined; the speaker beeps or raises.
AlertEnvs ==
    { [DefaultEnv EXCEPT !.target = None],
      [DefaultEnv EXCEPT !.target = None, !.beep_ok = FALSE] }

InitAlert ==
    /\ FeedIdle
    /\ EngineCold

NextAlert ==
    \/ main_subscribe("BTCUSDT", None)
    \/ /\ AlertCount(price_alerts, "BTCUSDT") < MaxAlerts
       /\ \E price \in AlertLevels, direction \in Directions :
             add_alert("BTCUSDT", price, direction)
    \/ /\ nticks < MaxAlertTicks
       /\ \E price \in AlertPrices, env \in AlertEnvs :
             handle_socket_message("BTCUSDT", price, env)

SpecAlert == InitAlert /\ [][NextAlert]_vars

\* ---- SpecFeed: the reconnecting feed ----
InitFeed ==
    /\ FeedIdle
    /\ EngineCold

NextFeed ==
    \/ \E symbol \in Symbols : feed_main(symbol)
    \/ \E connected \in BOOLEAN : start_symbol_ticker_socket(connected)
    \/ \E restarted \in BOOLEAN : reconnect_websocket(restarted)

SpecFeed == InitFeed /\ [][NextFeed]_vars

-----------------------------------------------------------------------------
(* Properties                                                              *)

Ops(log) == {log[i].op : i \in 1..Len(log)}
Failed(log, op) == \E i \in 1..Len(log) : log[i].op = op /\ ~log[i].ok
Passed(log, op) == \E i \in 1..Len(log) : log[i].op = op /\ log[i].ok

GateOps == {"gate_volatility", "gate_margin", "gate_count", "gate_volume", "gate_spread"}
GateFetchOps == {"futures_account", "futures_ticker", "futures_order_book"}

\* C1: when every connection attempt fails, the feed makes no more than
\* MAX_RECONNECT_ATTEMPTS consecutive reconnect attempts, and a subscribe call
\* that saw more failures than that has ended in the Failed state.
C1_BoundedReconnects ==
    /\ reconnects_in_row <= MAX_RECONNECT_ATTEMPTS
    /\ (feed_pc = "idle" /\ failed_in_row > MAX_RECONNECT_ATTEMPTS
           => feed_result = "failed")

\* C2: a subscribe call in which the connection failed 6 or more times in a
\* row has sent the "maximum reconnect attempts exceeded" notification exactly
\* once when it ends.
C2_ExceededNoticeOnce ==
    (feed_pc = "idle" /\ failed_in_row >= MAX_RECONNECT_ATTEMPTS + 1)
        => exceeded_notices = 1

\* C3: the tracked trailing stop_price of a (Long) position never decreases
\* from one tick to the next once it has been initialized.
C3_StopNeverDecreases ==
    [][\A s \in DOMAIN trailing_stops :
          /\ s \in DOMAIN trailing_stops'
          /\ (open_positions'[s].side = "long"
                 => RLe(trailing_stops[s].stop_price, trailing_stops'[s].stop_price))]_vars

\* C3 witness: a trailing stop that was raised above the position's first
\* stop, followed by a tick below the highest price.
C3_Witness ==
    /\ "BTCUSDT" \in DOMAIN trailing_stops
    /\ RLt(RInt(97), trailing_stops["BTCUSDT"].stop_price)
    /\ last_tick.price < trailing_stops["BTCUSDT"].highest_price

\* C4: after every tick of a symbol with a trailing stop, the trailing
\* stop_price is less than or equal to that tick's price.
C4_StopAtMostPrice ==
    \A s \in DOMAIN trailing_stops :
        last_tick.symbol = s
            => RLe(trailing_stops[s].stop_price, RInt(last_tick.price))

\* C5: each level of the partial-close ladder triggers at most once per
\* position.
C5_LevelAtMostOnce ==
    \A s \in Symbols : \A i \in DOMAIN level_fired[s] : level_fired[s][i] <= 1

\* C6: a Long position with entry 100 and quantity 10 has tracked quantity 7
\* after the tick at 101 that triggers the first ladder level.
C6_QuantityReduced ==
    \A s \in DOMAIN open_positions :
        ( /\ last_tick = [symbol |-> s, price |-> 101]
          /\ open_positions[s].entry_price = 100
          /\ level_fired[s][1] = 1 )
            => open_positions[s].quantity = RInt(7)

\* C7: the number of recorded open positions never exceeds MAX_POSITIONS.
C7_PositionsBounded == Cardinality(DOMAIN open_positions) <= MAX_POSITIONS

\* C7 witness: MAX_POSITIONS positions are open and a further entry attempt
\* was turned down by the count gate.
C7_Witness ==
    /\ Cardinality(DOMAIN open_positions) = MAX_POSITIONS
    /\ Failed(calls, "gate_count")

\* The place of a gate in an order of evaluation.
Place(order, op) == CHOOSE i \in 1..Len(order) : order[i] = op

\* The gates of the log are evaluated in the given order, and nothing is
\* evaluated or fetched for a gate after a gate has failed.
GatesFollow(order, log) ==
    \A i, j \in 1..Len(log) :
        i < j =>
           /\ (log[i].op \in GateOps /\ log[j].op \in GateOps
                  => Place(order, log[i].op) < Place(order, log[j].op))
           /\ (log[i].op \in GateOps /\ ~log[i].ok
                  => log[j].op \notin GateOps \cup GateFetchOps)

\* C8 as stated: the gates are evaluated in the order open-position count,
\* 24h quote volume, spread, margin ratio, volatility, stopping at the first
\* gate that fails.
C8_OrderAsStated ==
    GatesFollow(<<"gate_count", "gate_volume", "gate_spread", "gate_margin",
                  "gate_volatility">>, calls)

\* C8 amended: the gates are evaluated in the order volatility (when known),
\* margin ratio, open-position count, 24h quote volume, spread; once a gate
\* fails no later gate is evaluated and no data for a later gate is fetched.
C8_GateOrder ==
    GatesFollow(<<"gate_volatility", "gate_margin", "gate_count", "gate_volume",
                  "gate_spread">>, calls)

\* C8 witnesses: a tick that evaluated all five gates, and a tick stopped by
\* the volume gate.
C8_Witness == GateOps \subseteq Ops(calls)

\* C9: if a fetch used by the entry gates (account state, 24h ticker, order
\* book) fails, no entry order is placed and no position is recorded on that
\* tick.
C9_FetchFailureRejects ==
    (\E op \in GateFetchOps : Failed(calls, op))
        => /\ "create_MARKET" \notin Ops(calls)
           /\ "record_position" \notin Ops(calls)

\* C9 witness: the 24h ticker fetch failed after the margin and count gates
\* had passed.
C9_Witness ==
    /\ Failed(calls, "futures_ticker")
    /\ Passed(calls, "gate_margin")
    /\ Passed(calls, "gate_count")

\* C10: no entry order is placed on a tick for which the symbol's recorded
\* volatility is known and exceeds the threshold; the volatility is known
\* exactly when VOL_WINDOW samples exist, and while it is not known a tick at
\* or below the target goes on to open_position.
C10_VolatilityGate ==
    \A s \in subscribed :
        /\ (last_tick.symbol = s /\ s \in DOMAIN volatility
               /\ volatility[s] > VOL_THRESHOLD
               => "create_MARKET" \notin Ops(calls))
        /\ (s \in DOMAIN price_history
               => (s \in DOMAIN volatility <=> Len(price_history[s]) >= VOL_WINDOW))
        /\ (last_tick.symbol = s /\ nticks > 0 /\ s \notin DOMAIN volatility
               /\ ~TARGET_PRICES[s].none /\ last_tick.price <= TARGET_PRICES[s].v
               /\ "handler_error" \notin Ops(calls)
               => "futures_account" \in Ops(calls))

\* C10 witness: a tick at or below the target was stopped by the volatility
\* gate.
C10_Witness ==
    /\ Failed(calls, "gate_volatility")
    /\ last_tick.symbol \in DOMAIN volatility
    /\ volatility[last_tick.symbol] > VOL_THRESHOLD
    /\ last_tick.price <= Target

\* The exchange's LOT_SIZE step of the symbols (Real_trading_spot.py, line 27
\* reads it): a thousandth of a unit.
LotSize == Rat(1, 1000)

\* q is a whole number of steps.
IsMultiple(q, step) == ~IsNaN(q) /\ (q.n * step.d) % (q.d * step.n) = 0

\* C11: on a tick that records a position, the market entry order was placed
\* first, then a STOP_MARKET order, then a TAKE_PROFIT_MARKET order, each for
\* the quantity of the entry, and only then was the position recorded, with
\* that quantity.
C11_EntryOrder ==
    "record_position" \in Ops(calls) =>
        \E i, j, k, l \in 1..Len(calls) :
            /\ i < j /\ j < k /\ k < l
            /\ calls[i].op = "create_MARKET" /\ calls[i].ok
            /\ calls[j].op = "create_STOP_MARKET" /\ calls[j].ok
            /\ calls[k].op = "create_TAKE_PROFIT_MARKET" /\ calls[k].ok
            /\ calls[l].op = "record_position"
            /\ calls[j].quantity = calls[i].quantity
            /\ calls[k].quantity = calls[i].quantity
            /\ open_positions[last_tick.symbol].quantity = calls[i].quantity

\* C11 witness: an entry of quantity 10 was accepted and recorded, with its
\* two protective orders live.
C11_Witness ==
    /\ "record_position" \in Ops(calls)
    /\ open_positions[last_tick.symbol].quantity = RInt(10)
    /\ Len(orders[last_tick.symbol]) >= 2

\* C12: if the stop-loss or the take-profit order fails after the market
\* entry order was accepted, the position is recorded in the registry on that
\* tick all the same.
C12_UnprotectedRecorded ==
    \A i, j \in 1..Len(calls) :
        ( /\ i < j
          /\ calls[i].op = "create_MARKET" /\ calls[i].ok
          /\ calls[j].op \in {"create_STOP_MARKET", "create_TAKE_PROFIT_MARKET"}
          /\ ~calls[j].ok )
            => "record_position" \in Ops(calls)

\* C13: on a tick on which get_tick_size finds no tick size for the symbol, no
\* market entry order is placed.
C13_NoTickSizeNoOrder ==
    Failed(calls, "futures_exchange_info") => "create_MARKET" \notin Ops(calls)

\* C14: the quantity of every market entry order is positive and a whole
\* number of lot-size steps.
C14_LotSizeQuantity ==
    \A i \in 1..Len(calls) :
        calls[i].op = "create_MARKET"
            => /\ IsMultiple(calls[i].quantity, LotSize)
               /\ RLt(RInt(0), calls[i].quantity)

\* C15: every stop_loss_percent calculate_dynamic_stops returns is a number
\* within [MIN_STOP_LOSS, MAX_STOP_LOSS].
C15_StopPercentInRange ==
    \A i \in 1..Len(calls) :
        calls[i].op = "calculate_dynamic_stops"
            => /\ ~IsNaN(calls[i].stop_loss_percent)
               /\ RLe(MIN_STOP_LOSS, calls[i].stop_loss_percent)
               /\ RLe(calls[i].stop_loss_percent, MAX_STOP_LOSS)

\* C16 as stated: on every path on which calculate_dynamic_stops returns, the
\* take_profit_percent equals 1.5 times the stop_loss_percent.
C16_AlwaysOneAndAHalf ==
    \A i \in 1..Len(calls) :
        calls[i].op = "calculate_dynamic_stops"
            => /\ ~IsNaN(calls[i].stop_loss_percent)
               /\ ~IsNaN(calls[i].take_profit_percent)
               /\ calls[i].take_profit_percent =
                      RMul(calls[i].stop_loss_percent, Rat(3, 2))

\* C16 amended: when the computation raises nothing, the take_profit_percent
\* is 1.5 times the stop_loss_percent (not a number when the stop is not a
\* number); when it raises, the static defaults STOP_LOSS_PERCENT and
\* TAKE_PROFIT_PERCENT come back, at one to one.
C16_RiskReward ==
    \A i \in 1..Len(calls) :
        calls[i].op = "calculate_dynamic_stops"
            => IF ~calls[i].ok
               THEN /\ calls[i].stop_loss_percent = STOP_LOSS_PERCENT
                    /\ calls[i].take_profit_percent = TAKE_PROFIT_PERCENT
                    /\ calls[i].take_profit_percent = calls[i].stop_loss_percent
               ELSE IF IsNaN(calls[i].stop_loss_percent)
               THEN IsNaN(calls[i].take_profit_percent)
               ELSE 2 * calls[i].take_profit_percent.n * calls[i].stop_loss_percent.d
                       = 3 * calls[i].stop_loss_percent.n * calls[i].take_profit_percent.d

\* C16 witness: a stop clamped to MAX_STOP_LOSS came back with a take profit
\* of 7.5 percent.
C16_Witness ==
    \E i \in 1..Len(calls) :
        /\ calls[i].op = "calculate_dynamic_stops" /\ calls[i].ok
        /\ calls[i].stop_loss_percent = MAX_STOP_LOSS
        /\ calls[i].take_profit_percent = Rat(15, 2)

\* C17: validate_position_size(x, balance) is at most a tenth of the balance
\* for every x >= 0 and balance >= 0, and is x itself whenever x is at most a
\* tenth of the balance.
C17_SizeCapped ==
    sizing.fn = "validate_position_size" =>
        /\ 10 * sizing.result.n <= sizing.balance * sizing.result.d
        /\ (10 * sizing.position_size.n <= sizing.balance * sizing.position_size.d
               => sizing.result = sizing.position_size)

\* C17 witness: a size of 12 against a balance of 50 came back as 5.
C17_Witness ==
    /\ sizing.fn = "validate_position_size"
    /\ sizing.position_size = RInt(12)
    /\ sizing.balance = 50
    /\ sizing.result = RInt(5)

\* C18: calculate_position_size returns (balance * RISK_PER_TRADE /
\* stop_diff_percent) * LEVERAGE with stop_diff_percent = |entry - stop| /
\* entry * 100; for balance 10000, entry 100, stop 98 the raw size is 150 and
\* the size after validate_position_size is 150.
C18_SizeFormula ==
    (sizing.fn = "calculate_position_size" /\ ~sizing.raised) =>
        /\ sizing.raw.n * RISK_PER_TRADE.d * 100
                * Abs(sizing.entry_price - sizing.stop_loss_price)
             = sizing.raw.d * sizing.balance * RISK_PER_TRADE.n
                * LEVERAGE * sizing.entry_price
        /\ ( /\ sizing.balance = 10000
             /\ sizing.entry_price = 100
             /\ sizing.stop_loss_price = 98 )
               => (sizing.raw = RInt(150) /\ sizing.result = RInt(150))

\* C18 witness: the scenario's call was made and gave 150.
C18_Witness ==
    /\ sizing.fn = "calculate_position_size"
    /\ sizing.balance = 10000
    /\ sizing.entry_price = 100
    /\ sizing.stop_loss_price = 98
    /\ sizing.result = RInt(150)

\* C19: every recorded Long position has stop_loss < entry_price <
\* take_profit, from its recording on.
C19_StopBelowEntryBelowTarget ==
    \A s \in DOMAIN open_positions :
        open_positions[s].side = "long"
            => /\ RLt(open_positions[s].stop_loss, RInt(open_positions[s].entry_price))
               /\ RLt(RInt(open_positions[s].entry_price), open_positions[s].take_profit)

\* C20: from one tick to the next the recorded quantity of a symbol's position
\* never increases (so it never exceeds the quantity it was opened with).
C20_QuantityNeverIncreases ==
    [][\A s \in DOMAIN open_positions :
          s \in DOMAIN open_positions'
              => RLe(open_positions'[s].quantity, open_positions[s].quantity)]_vars

\* The price is within the proximity threshold of a position's liquidation
\* price (line 523).
NearLiquidation(position, price) ==
    RLt(RDiv(RAbs(RSub(RInt(price), calculate_liquidation_price(position))),
             RInt(price)),
        LIQ_PROXIMITY)

\* C21: after every tick of a symbol whose open position is within the
\* proximity threshold of its liquidation price at the tick's price, the
\* liquidation warning was raised on that tick.
C21_LiquidationWarning ==
    \A s \in DOMAIN open_positions :
        (nticks > 0 /\ last_tick.symbol = s
            /\ NearLiquidation(open_positions[s], last_tick.price))
            => "liquidation_warning" \in Ops(calls)

\* C22: on every tick the first thing the handler does is record the sample
\* (update_price_data), before any RiskManager step and before the entry
\* decision, also when the price equals the symbol's previous price.
C22_SampleFirst ==
    nticks > 0 => (calls # <<>> /\ calls[1].op = "update_price_data")

\* C23: a symbol's price history never holds more than HISTORY_CAP samples,
\* and a tick that changes the symbol's price leaves exactly the most recent
\* samples in arrival order: the tick's sample last, before it the samples
\* held before, of which the oldest one is dropped when, and only when, the
\* history was at its cap.
C23_HistoryBounded ==
    [][\A s \in DOMAIN price_history' :
          /\ Len(price_history'[s]) <= HISTORY_CAP
          /\ ( /\ nticks' = nticks + 1
               /\ last_tick'.symbol = s
               /\ (s \in DOMAIN previous_prices => previous_prices[s] # last_tick'.price) )
             => LET old == IF s \in DOMAIN price_history THEN price_history[s] ELSE <<>>
                    new == price_history'[s]
                    dropped == IF Len(old) >= HISTORY_CAP THEN 1 ELSE 0
                IN  /\ Len(new) = Len(old) + 1 - dropped
                    /\ new[Len(new)].price = last_tick'.price
                    /\ \A i \in 1..(Len(new) - 1) :
                          /\ new[i] = old[i + dropped]
                          /\ new[i].timestamp < new[Len(new)].timestamp]_vars

\* C23 witness: the history is at its cap and its oldest samples were
\* evicted.
C23_Witness ==
    /\ "BTCUSDT" \in DOMAIN price_history
    /\ Len(price_history["BTCUSDT"]) = HISTORY_CAP
    /\ price_history["BTCUSDT"][1].timestamp > 2
    /\ price_history["BTCUSDT"][HISTORY_CAP].price = last_tick.price

\* C24: a tick adds an alert for its symbol only if the symbol then has at
\* least VOL_WINDOW samples and its recomputed volatility exceeds
\* VOL_THRESHOLD; a tick that leaves the symbol with fewer than VOL_WINDOW
\* samples changes neither the volatility values nor the alert registry.
C24_VolatilityAlert ==
    [][nticks' = nticks + 1 =>
          /\ AlertCount(price_alerts', last_tick'.symbol)
                 > AlertCount(price_alerts, last_tick'.symbol)
               => /\ Len(price_history'[last_tick'.symbol]) >= VOL_WINDOW
                  /\ volatility'[last_tick'.symbol] > VOL_THRESHOLD
          /\ Len(price_history'[last_tick'.symbol]) < VOL_WINDOW
               => /\ volatility' = volatility
                  /\ price_alerts' = price_alerts]_vars

\* C24 witness: the tick that completed the volatility window found a
\* volatility above the threshold and registered the alert.
C24_Witness ==
    /\ nticks > 0
    /\ AlertCount(price_alerts, last_tick.symbol) = 1
    /\ price_alerts[last_tick.symbol][1].direction = "both"
    /\ Len(price_history[last_tick.symbol]) = VOL_WINDOW
    /\ volatility[last_tick.symbol] > VOL_THRESHOLD

\* C25: an alert whose triggered flag is true keeps it true over every later
\* step, and no later tick reports it again.
C25_TriggeredStays ==
    [][\A s \in DOMAIN price_alerts : \A i \in 1..Len(price_alerts[s]) :
          price_alerts[s][i].triggered
              => /\ s \in DOMAIN price_alerts'
                 /\ i <= Len(price_alerts'[s])
                 /\ price_alerts'[s][i].triggered
                 /\ nticks' = nticks + 1
                      => \A k \in 1..Len(calls') :
                            calls'[k].op = "alert" => calls'[k].index # i]_vars

\* C25 witness: an "above" alert that was triggered earlier sees another tick
\* above its price, which reports nothing.
C25_Witness ==
    /\ nticks >= 2
    /\ AlertCount(price_alerts, "BTCUSDT") >= 1
    /\ price_alerts["BTCUSDT"][1].direction = "above"
    /\ price_alerts["BTCUSDT"][1].triggered
    /\ last_tick.price > price_alerts["BTCUSDT"][1].price
    /\ "update_price_data" \in Ops(calls)
    /\ "alert" \notin Ops(calls)

\* C26: when the beep that announces an accepted market entry fails, the
\* stop-loss and take-profit orders are placed and the position is recorded
\* all the same.
C26_NotificationIsolated ==
    \A i, j \in 1..Len(calls) :
        ( /\ i < j
          /\ calls[i].op = "create_MARKET" /\ calls[i].ok
          /\ calls[j].op = "Beep" /\ ~calls[j].ok )
            => /\ \E k \in (j + 1)..Len(calls) :
                     calls[k].op = "create_STOP_MARKET" /\ calls[k].ok
               /\ \E k \in (j + 1)..Len(calls) :
                     calls[k].op = "create_TAKE_PROFIT_MARKET" /\ calls[k].ok
               /\ "record_position" \in Ops(calls)

\* ---- SpecRequest: one request with its retries ----
DefaultRetries == 3
MaxRetries == 5
Functions == {"send_signed_request", "send_public_request"}
\* requests.exceptions.RequestException and the subclasses the HTTP call and
\* raise_for_status produce
RequestErrors == {"ConnectionError", "Timeout", "HTTPError"}
Outcomes == {"ok"} \cup RequestErrors

\* lines 56 and 78: if retries > 0
RetriesLeft_Inclusive(retries) == retries >= 0
RetriesLeft(retries) == retries > 0

\* a caller calls send_signed_request / send_public_request
send_request(fn, retries) ==
    /\ req_pc = "idle"
    /\ req_pc' = "attempt"
    /\ req_fn' = fn
    /\ req_initial' = retries
    /\ req_retries' = retries
    /\ req_attempts' = 0
    /\ req_result' = "none"
    /\ UNCHANGED <<feed_vars, engine_vars, calc_vars, status_vars, trader_vars, ws_vars>>

\* one frame of the function: the try block (lines 45-54, 67-76) and, when
\* the HTTP call raised, the except block (lines 55-62, 77-84)
http_attempt(outcome) ==
    /\ req_pc = "attempt"
    /\ req_attempts' = req_attempts + 1
    /\ IF outcome = "ok"
       THEN /\ req_pc' = "done"
            /\ req_result' = "json"
            /\ UNCHANGED req_retries
       ELSE IF RetriesLeft(req_retries)
            THEN /\ req_retries' = req_retries - 1
                 /\ UNCHANGED <<req_pc, req_result>>
            ELSE /\ req_pc' = "done"
                 /\ req_result' = outcome
                 /\ UNCHANGED req_retries
    /\ UNCHANGED <<req_fn, req_initial, feed_vars, engine_vars, calc_vars, status_vars,
                   trader_vars, ws_vars>>

\* the value reaches the caller
request_return ==
    /\ req_pc = "done"
    /\ req_pc' = "idle"
    /\ UNCHANGED <<req_fn, req_initial, req_retries, req_attempts, req_result,
                   feed_vars, engine_vars, calc_vars, status_vars,
                   trader_vars, ws_vars>>

InitRequest ==
    /\ FeedIdle
    /\ EngineCold

\* @retry(stop=stop_after_attempt(5), ...) on get_tick_size (line 294)
StopAfterAttempt == 5
\* What client.futures_exchange_info() does for get_tick_size: it returns the
\* symbol's PRICE_FILTER, returns without one, or raises.
FetchOutcomes == {"found", "not_found", "raises"}

\* The body of get_tick_size (lines 295-305): what it hands to the retry
\* wrapper.  The except clause of line 303 takes every Exception of the fetch.
get_tick_size_body(outcome) ==
    IF outcome = "found" THEN [raised |-> FALSE, value |-> "tick_size"]
    ELSE IF outcome = "not_found" THEN [raised |-> FALSE, value |-> "None"]
    ELSE [raised |-> FALSE, value |-> "None_error_logged"]

\* a caller calls get_tick_size(symbol)
get_tick_size ==
    /\ req_pc = "idle"
    /\ req_pc' = "tick_size"
    /\ req_fn' = "get_tick_size"
    /\ req_initial' = StopAfterAttempt
    /\ req_retries' = StopAfterAttempt
    /\ req_attempts' = 0
    /\ req_result' = "none"
    /\ UNCHANGED <<feed_vars, engine_vars, calc_vars, status_vars, trader_vars, ws_vars>>

\* one attempt of tenacity's wrapper: it calls the body, and calls it again
\* only when the body raised and fewer than StopAfterAttempt attempts were made
tick_size_attempt(outcome) ==
    /\ req_pc = "tick_size"
    /\ req_attempts' = req_attempts + 1
    /\ req_retries' = req_retries - 1
    /\ LET body == get_tick_size_body(outcome) IN
       IF body.raised
       THEN IF req_attempts' < StopAfterAttempt
            THEN UNCHANGED <<req_pc, req_result>>
            ELSE /\ req_pc' = "done"
                 /\ req_result' = "RetryError"
       ELSE /\ req_pc' = "done"
            /\ req_result' = body.value
    /\ UNCHANGED <<req_fn, req_initial, feed_vars, engine_vars, calc_vars, status_vars,
                   trader_vars, ws_vars>>

NextRequest ==
    \/ \E fn \in Functions, retries \in 0..MaxRetries : send_request(fn, retries)
    \/ \E outcome \in Outcomes : http_attempt(outcome)
    \/ get_tick_size
    \/ \E outcome \in FetchOutcomes : tick_size_attempt(outcome)
    \/ request_return

\* each HTTP call returns or raises, and the function then goes on
SpecRequest ==
    /\ InitRequest
    /\ [][NextRequest]_vars
    /\ WF_vars(\E outcome \in Outcomes : http_attempt(outcome))

\* C27: a request makes at most retries + 1 HTTP attempts (4 with the default
\* retries = 3); when every attempt fails with a request error it has made
\* exactly retries + 1 attempts and hands the error to its caller as a value;
\* and every request that was started ends.
C27_BoundedRetries ==
    /\ [](req_attempts <= req_initial + 1)
    /\ [](req_result \in RequestErrors
            => req_pc # "attempt" /\ req_attempts = req_initial + 1)
    /\ [](req_pc = "attempt" => req_attempts + req_retries = req_initial)
    /\ (req_pc = "attempt") ~> (req_pc = "done")
C27_Witness ==
    /\ req_pc = "done"
    /\ req_initial = DefaultRetries
    /\ req_attempts = 4
    /\ req_result \in RequestErrors

\* ---- SpecStatus: the STATUS command beside the tick handlers ----
\* main() runs on the main thread and the tick handlers on the thread of the
\* ThreadedWebsocketManager; neither takes a lock.  Tick handlers run one
\* after the other on their thread.  The loop of show_trading_status makes a
\* network call per item (line 598), during which the handler thread runs.

\* show_trading_status up to the loop (lines 581-597), or to its end when
\* the registry is empty (line 596)
status_begin ==
    /\ status_pc = "idle"
    /\ IF DOMAIN open_positions = {}
       THEN /\ status_result' = "printed"
            /\ UNCHANGED <<status_pc, status_keys, status_todo, status_seen>>
       ELSE /\ status_pc' = "iterating"
            /\ status_keys' = DOMAIN open_positions
            /\ status_todo' = DOMAIN open_positions
            /\ status_seen' = [open_positions |-> open_positions,
                               trailing_stops |-> trailing_stops]
            /\ status_result' = "none"
    /\ UNCHANGED <<feed_vars, engine_vars, calc_vars, req_vars, trader_vars, ws_vars>>

\* the dict iterator refuses to go on when the dict has another size than
\* at the start of the loop
SizeChanged == Cardinality(DOMAIN open_positions) # Cardinality(status_keys)

\* one turn of the loop (lines 597-617); the RuntimeError of the iterator is
\* caught at line 629
status_visit(symbol) ==
    /\ status_pc = "iterating"
    /\ symbol \in status_todo
    /\ IF SizeChanged
       THEN /\ status_pc' = "idle"
            /\ status_todo' = {}
            /\ status_result' = "RuntimeError"
       ELSE /\ status_todo' = status_todo \ {symbol}
            /\ UNCHANGED <<status_pc, status_result>>
    /\ UNCHANGED <<status_keys, status_seen, feed_vars, engine_vars, calc_vars, req_vars,
                   trader_vars, ws_vars>>

\* the loop's end and the statistics (lines 619-627)
status_end ==
    /\ status_pc = "iterating"
    /\ status_todo = {}
    /\ status_pc' = "idle"
    /\ status_result' = IF SizeChanged THEN "RuntimeError" ELSE "printed"
    /\ UNCHANGED <<status_keys, status_todo, status_seen, feed_vars, engine_vars,
                   calc_vars, req_vars, trader_vars, ws_vars>>

MaxStatusTicks == 3
StatusSymbols == {"BTCUSDT", "ETHUSDT"}
StatusPrices == {100, 103}

InitStatus ==
    /\ FeedIdle
    /\ EngineCold

NextStatus ==
    \/ \E symbol \in StatusSymbols : main_subscribe(symbol, Some(Target))
    \/ /\ nticks < MaxStatusTicks
       /\ \E symbol \in StatusSymbols, price \in StatusPrices :
             handle_socket_message(symbol, price, DefaultEnv)
    \/ status_begin
    \/ \E symbol \in StatusSymbols : status_visit(symbol)
    \/ status_end

SpecStatus == InitStatus /\ [][NextStatus]_vars

\* C28: while the status command iterates the registry, no step changes the
\* position registry or the trailing-stop map.
C28_NoInterleaving ==
    [][status_pc = "iterating" => UNCHANGED <<open_positions, trailing_stops>>]_vars

\* The calls that place or cancel an order on the exchange.
OrderCalls ==
    {"create_MARKET", "create_STOP_MARKET", "create_TAKE_PROFIT_MARKET",
     "futures_cancel_order", "partial_close_position"}

\* What a tick leaves alone when the trailing stop is not to be moved.
TrailingFrame(s) ==
    /\ s \in DOMAIN open_positions' /\ s \in DOMAIN trailing_stops'
    /\ trailing_stops'[s].stop_price = trailing_stops[s].stop_price
    /\ trailing_stops'[s].distance_percent = trailing_stops[s].distance_percent
    /\ open_positions'[s].stop_loss = open_positions[s].stop_loss
    /\ orders' = orders
    /\ Ops(calls') \cap OrderCalls = {}

C30_OneEntryPerPosition ==
    [][( /\ nticks' = nticks + 1
         /\ last_tick'.symbol \in DOMAIN open_positions )
          => "create_MARKET" \notin Ops(calls')]_vars

\* C31: the reconnect counter is set to zero only by a connection attempt
\* that succeeded; a failed attempt leaves it alone, so that before each
\* attempt it is the number of attempts that failed in a row.
C31_CounterCountsFailures ==
    feed_pc = "start" => reconnect_attempts = failed_in_row

\* C32: a reconnect for one symbol leaves the subscriptions of the other
\* symbols active: no step of reconnect_websocket takes a symbol off the
\* manager, and the call ends with every earlier subscription in place.
C32_OthersStaySubscribed ==
    [][feed_pc = "reconnect" => twm \subseteq twm']_vars

\* C33: after a tick on which the trailing stop was raised, the tracked
\* stop_price is the position's recorded stop_loss, whatever the exchange
\* answered to the calls of update_stop_loss_order.
C33_StopPriceIsStopLoss ==
    \A s \in DOMAIN trailing_stops :
        ( /\ last_tick.symbol = s
          /\ "futures_get_open_orders" \in Ops(calls)
          /\ "create_MARKET" \notin Ops(calls) )
            => trailing_stops[s].stop_price = open_positions[s].stop_loss

\* C34: a stop replacement never ends with the previous STOP_MARKET order
\* cancelled and no new one placed: after a tick that cancelled the stop
\* order, the position has a live STOP_MARKET order.
C34_StopAlwaysLive ==
    \A s \in DOMAIN open_positions :
        ( /\ last_tick.symbol = s
          /\ Passed(calls, "futures_cancel_order")
          /\ "create_MARKET" \notin Ops(calls) )
            => \E i \in 1..Len(orders[s]) : IsStopMarket(orders[s][i])

\* C35: an entry attempt that a gate rejects makes no state-changing call to
\* the exchange: it creates no entry order and does not change the symbol's
\* leverage.
C35_RejectedEntryChangesNothing ==
    (\E gate \in GateOps : Failed(calls, gate))
        => /\ "create_MARKET" \notin Ops(calls)
           /\ "futures_change_leverage" \notin Ops(calls)

\* ---- SpecDaily: one symbol, a session of ticks at the target price ----
MaxDailyTicks == 12
DailyEnvs ==
    { DefaultEnv,
      [DefaultEnv EXCEPT !.market_ok = FALSE],
      [DefaultEnv EXCEPT !.account.margin = 900] }

InitDaily ==
    /\ FeedIdle
    /\ EngineCold

NextDaily ==
    \/ main_subscribe("BTCUSDT", Some(Target))
    \/ /\ nticks < MaxDailyTicks
       /\ \E env \in DailyEnvs : handle_socket_message("BTCUSDT", Target, env)

SpecDaily == InitDaily /\ [][NextDaily]_vars

\* C36: the number of entry orders placed during a session never exceeds
\* MAX_DAILY_TRADES.
C36_DailyTradesBounded == entry_orders <= MAX_DAILY_TRADES

\* C37: a pending alert of direction 'both' is reported and marked triggered
\* by the next tick of its symbol that is handled as a price change, sounds
\* its beep and has a price above or below the alert's price.
C37_BothAlertTriggers ==
    [][\A s \in DOMAIN price_alerts : \A i \in 1..Len(price_alerts[s]) :
          ( /\ nticks' = nticks + 1
            /\ last_tick'.symbol = s
            /\ "update_price_data" \in Ops(calls')
            /\ ~Failed(calls', "Beep")
            /\ price_alerts[s][i].direction = "both"
            /\ ~price_alerts[s][i].triggered
            /\ last_tick'.price # price_alerts[s][i].price )
          => /\ price_alerts'[s][i].triggered
             /\ \E k \in 1..Len(calls') :
                   calls'[k].op = "alert" /\ calls'[k].index = i]_vars

\* C38: when the exchange-info fetch of get_tick_size raises, the fetch is
\* attempted again: a call that gave up after a fetch that raised has made
\* StopAfterAttempt attempts.
C38_TickSizeRetried ==
    ( /\ req_fn = "get_tick_size"
      /\ req_pc # "tick_size"
      /\ req_result = "None_error_logged" )
        => req_attempts = StopAfterAttempt

\* ---- SpecTrader: BinanceTrader.check_price_target over three symbols ----
TraderSymbols == {"BTCUSDT", "ETHUSDT", "BNBUSDT"}
\* The target price in ticks, and prices below 0.999 x target, between
\* 0.999 x target and the target, at the target and above it.
TraderTarget == 2000
TraderPrices == {1997, 1999, 2000, 2001}

\* price < target_price * 0.999 (line 781)
BelowReset(price, target_price) == price * 1000 < target_price * 999

\* BinanceTrader.check_price_target(symbol, price) (lines 767-782)
\* for a symbol whose target price is known
check_price_target(symbol, price) ==
    /\ symbol \in DOMAIN TARGET_PRICES
    /\ ~TARGET_PRICES[symbol].none
    /\ LET target_price == TARGET_PRICES[symbol].v
           fires == price >= target_price /\ ~price_alert_sent
       IN  /\ price_alert_sent' =
                  IF price >= target_price THEN TRUE
                  ELSE IF BelowReset(price, target_price) THEN FALSE
                  ELSE price_alert_sent
           /\ target_alert' = [symbol |-> symbol, price |-> price, fired |-> fires]
           /\ fired_since_reset' =
                  [fired_since_reset EXCEPT ![symbol] =
                      IF fires THEN TRUE
                      ELSE IF BelowReset(price, target_price) THEN FALSE
                      ELSE @]
    /\ UNCHANGED <<feed_vars, engine_vars, calc_vars, req_vars, status_vars, ws_vars>>

InitTrader ==
    /\ FeedIdle
    /\ EngineCold

NextTrader ==
    \/ \E symbol \in TraderSymbols : main_subscribe(symbol, Some(TraderTarget))
    \/ \E symbol \in TraderSymbols, price \in TraderPrices :
          check_price_target(symbol, price)

SpecTrader == InitTrader /\ [][NextTrader]_vars

\* C39: for each symbol the target-reached alert fires at most once between
\* resets of that symbol, and neither an alert nor a reset of another symbol
\* suppresses or re-arms it: a call at or above the target fires the alert
\* exactly when the symbol's alert has not fired since the symbol's price
\* was last below 0.999 x target.
C39_AlertPerSymbol ==
    [][\A s \in TraderSymbols :
          ( /\ target_alert' # target_alert \/ fired_since_reset' # fired_since_reset
              \/ price_alert_sent' # price_alert_sent
            /\ target_alert'.symbol = s
            /\ target_alert'.price >= TARGET_PRICES[s].v )
          => (target_alert'.fired <=> ~fired_since_reset[s])]_vars

\* ---- SpecSocket: BinanceWebsocketClient, one client ----
MaxPongs == 6
MaxConnects == 5
PingOutcomes == {"pong", "timeout", "error"}

\* client.connect() called by the owner of the client (lines 727-733):
\* connected: whether websockets.connect returned or raised
ws_connect(connected) ==
    /\ ws = "none"
    /\ ws_pc = "idle"
    /\ IF connected
       THEN /\ ws' = "open"
            /\ keepalive_tasks' = keepalive_tasks + 1
            /\ ws_connects' = ws_connects + 1
       ELSE UNCHANGED <<ws, keepalive_tasks, ws_connects>>
    /\ UNCHANGED <<ws_pc, ws_pongs, feed_vars, engine_vars, calc_vars, req_vars,
                   status_vars, trader_vars>>

\* one turn of the loop of _keepalive (lines 736-747): the ping is answered
\* in time, or not (asyncio.TimeoutError), or the ping raises
keepalive_ping(outcome) ==
    /\ keepalive_tasks > 0
    /\ ws_pc = "idle"
    /\ IF outcome = "pong"
       THEN /\ ws_pongs < MaxPongs
            /\ ws_pongs' = ws_pongs + 1
            /\ UNCHANGED ws_pc
       ELSE /\ ws_connects < MaxConnects
            /\ ws_pc' = "reconnect"
            /\ UNCHANGED ws_pongs
    /\ UNCHANGED <<ws, keepalive_tasks, ws_connects, feed_vars, engine_vars, calc_vars,
                   req_vars, status_vars, trader_vars>>

\* reconnect() awaited inside the except clause of _keepalive (lines 742,
\* 746, 749-755).  When close() or connect() raises, reconnect re-raises
\* (line 755) and the exception ends the _keepalive task; when both return,
\* connect() has started a new _keepalive task (line 730) and the old one
\* leaves its loop (break).
ws_reconnect(closed, connected) ==
    /\ ws_pc = "reconnect"
    /\ ws_pc' = "idle"
    /\ IF ~closed
       THEN /\ keepalive_tasks' = keepalive_tasks - 1
            /\ UNCHANGED <<ws, ws_connects>>
       ELSE IF ~connected
       THEN /\ ws' = "closed"
            /\ keepalive_tasks' = keepalive_tasks - 1
            /\ UNCHANGED ws_connects
       ELSE /\ ws' = "open"
            /\ keepalive_tasks' = keepalive_tasks + 1 - 1
            /\ ws_connects' = ws_connects + 1
    /\ UNCHANGED <<ws_pongs, feed_vars, engine_vars, calc_vars, req_vars, status_vars,
                   trader_vars>>

InitSocket ==
    /\ FeedIdle
    /\ EngineCold

NextSocket ==
    \/ \E connected \in BOOLEAN : ws_connect(connected)
    \/ \E outcome \in PingOutcomes : keepalive_ping(outcome)
    \/ \E closed, connected \in BOOLEAN : ws_reconnect(closed, connected)

SpecSocket == InitSocket /\ [][NextSocket]_vars

\* C40: once connected, the client is connected with exactly one keepalive
\* loop, or a reconnect is under way; it is never left without a keepalive
\* loop and without a pending retry.
C40_NeverAbandoned ==
    ws_connects > 0
        => \/ ws = "open" /\ keepalive_tasks = 1
           \/ ws_pc = "reconnect"

====
